---- MODULE Spec2Model ----
(***************************************************************************)
(* Model of the FDIC state-table export parser and record combiner         *)
(* (fdic_scraper.py: convert_date, process_file, combine_data).            *)
(*                                                                         *)
(* Text is modelled as a sequence of one-character strings, so that the    *)
(* string operations of the code (strip, split, substring search, float    *)
(* and int parsing, date parsing and formatting, tuple comparison) are     *)
(* computed as the code computes them.                                     *)
(***************************************************************************)
EXTENDS Integers, Sequences, FiniteSets, TLC

(***************************************************************************)
(* Characters.  Ascii lists the characters of the model in code-point      *)
(* order;                                                                  *)
(* Ord gives the order Python uses to compare strings.                     *)
(***************************************************************************)
Q == "\""
NL == "\n"

Ascii ==
    << NL, " ", Q, "$", "*", "+", ",", "-", ".", "/",
       "0", "1", "2", "3", "4", "5", "6", "7", "8", "9", ":",
       "A", "B", "C", "D", "E", "F", "G", "H", "I", "J", "K", "L", "M",
       "N", "O", "P", "Q", "R", "S", "T", "U", "V", "W", "X", "Y", "Z", "_",
       "a", "b", "c", "d", "e", "f", "g", "h", "i", "j", "k", "l", "m",
       "n", "o", "p", "q", "r", "s", "t", "u", "v", "w", "x", "y", "z" >>

Ord(c) == CHOOSE i \in 1..Len(Ascii) : Ascii[i] = c

Digits == <<"0", "1", "2", "3", "4", "5", "6", "7", "8", "9">>

IsDigit(c) == \E i \in 1..10 : Digits[i] = c

DigitVal(c) == (CHOOSE i \in 1..10 : Digits[i] = c) - 1

IsSpace(c) == c \in {" ", NL}

\* str < str : lexicographic by code point, a proper prefix is smaller
RECURSIVE StrLess(_, _)
StrLess(a, b) ==
    IF b = <<>> THEN FALSE
    ELSE IF a = <<>> THEN TRUE
    ELSE IF Head(a) = Head(b) THEN StrLess(Tail(a), Tail(b))
    ELSE Ord(Head(a)) < Ord(Head(b))

\* str.strip()
RECURSIVE LStrip(_)
LStrip(s) == IF s # <<>> /\ IsSpace(Head(s)) THEN LStrip(Tail(s)) ELSE s

RECURSIVE RStrip(_)
RStrip(s) ==
    IF s # <<>> /\ IsSpace(s[Len(s)]) THEN RStrip(SubSeq(s, 1, Len(s) - 1)) ELSE s

Strip(s) == RStrip(LStrip(s))

\* str.strip(c) for a single character c
RECURSIVE StripChar(_, _)
StripChar(s, c) ==
    IF s # <<>> /\ Head(s) = c THEN StripChar(Tail(s), c)
    ELSE IF s # <<>> /\ s[Len(s)] = c THEN StripChar(SubSeq(s, 1, Len(s) - 1), c)
    ELSE s

StartsWith(s, p) == Len(p) <= Len(s) /\ SubSeq(s, 1, Len(p)) = p

\* p in s
Contains(s, p) == \E i \in 1..(Len(s) - Len(p) + 1) : SubSeq(s, i, i + Len(p) - 1) = p

\* s.split(sep): the fields of s between the occurrences of the text sep
RECURSIVE SplitFrom(_, _, _)
SplitFrom(s, sep, cur) ==
    IF s = <<>> THEN <<cur>>
    ELSE IF StartsWith(s, sep)
         THEN <<cur>> \o SplitFrom(SubSeq(s, Len(sep) + 1, Len(s)), sep, <<>>)
         ELSE SplitFrom(Tail(s), sep, Append(cur, Head(s)))

Split(s, sep) == SplitFrom(s, sep, <<>>)

\* s.replace(c, empty)
RemoveChar(s, c) == SelectSeq(s, LAMBDA x : x # c)

\* sep.join(parts)
RECURSIVE Join(_, _)
Join(parts, sep) ==
    IF parts = <<>> THEN <<>>
    ELSE IF Len(parts) = 1 THEN parts[1]
    ELSE parts[1] \o sep \o Join(Tail(parts), sep)

\* seq[start::2] with a 0-based start
EverySecondFrom(seq, start) ==
    [k \in 1..(IF Len(seq) > start THEN (Len(seq) - start + 1) \div 2 ELSE 0)
        |-> seq[start + 1 + 2 * (k - 1)]]

(***************************************************************************)
(* Numbers.  The fields of the model are written with digits, commas, a    *)
(* sign, blanks, '*' and letters; over these float() and int() accept an   *)
(* optional sign followed by one or more digits, surrounded by blanks.     *)
(***************************************************************************)
AllDigits(s) == s # <<>> /\ \A i \in 1..Len(s) : IsDigit(s[i])

RECURSIVE DigitsVal(_)
DigitsVal(s) ==
    IF s = <<>> THEN 0 ELSE 10 * DigitsVal(SubSeq(s, 1, Len(s) - 1)) + DigitVal(s[Len(s)])

Unsigned(s) == IF s # <<>> /\ Head(s) \in {"+", "-"} THEN Tail(s) ELSE s

\* whether int(s) / float(s) returns (otherwise it raises ValueError)
IsNumber(s) == AllDigits(Unsigned(Strip(s)))

NumberVal(s) ==
    LET t == Strip(s)
    IN  IF t # <<>> /\ Head(t) = "-" THEN 0 - DigitsVal(Tail(t)) ELSE DigitsVal(Unsigned(t))

RECURSIVE NatStr(_)
NatStr(n) == IF n < 10 THEN <<Digits[n + 1]>> ELSE NatStr(n \div 10) \o <<Digits[(n % 10) + 1]>>

\* str(i) of an int
IntStr(n) == IF n < 0 THEN <<"-">> \o NatStr(0 - n) ELSE NatStr(n)

\* zero-padded decimal of width w (strftime %m, %d, %Y)
RECURSIVE Pad(_, _)
Pad(s, w) == IF Len(s) >= w THEN s ELSE Pad(<<"0">> \o s, w)

(***************************************************************************)
(* convert_date: "Month DD, YYYY" to "MM/DD/YYYY"; on failure the text is  *)
(* returned unchanged.                                                     *)
(***************************************************************************)
MonthNames ==
    << <<"J", "a", "n", "u", "a", "r", "y">>, <<"F", "e", "b", "r", "u", "a", "r", "y">>, <<"M", "a", "r", "c", "h">>, <<"A", "p", "r", "i", "l">>,
       <<"M", "a", "y">>, <<"J", "u", "n", "e">>, <<"J", "u", "l", "y">>, <<"A", "u", "g", "u", "s", "t">>,
       <<"S", "e", "p", "t", "e", "m", "b", "e", "r">>, <<"O", "c", "t", "o", "b", "e", "r">>, <<"N", "o", "v", "e", "m", "b", "e", "r">>, <<"D", "e", "c", "e", "m", "b", "e", "r">> >>

IsLeap(y) == (y % 4 = 0 /\ y % 100 # 0) \/ y % 400 = 0

DaysInMonth(m, y) ==
    IF m = 2 THEN (IF IsLeap(y) THEN 29 ELSE 28)
    ELSE IF m \in {4, 6, 9, 11} THEN 30 ELSE 31

\* the text after the first run of one or more blanks, or "fail" (a 1-tuple) if s
\* does not start with a blank
AfterBlanks(s) == IF s # <<>> /\ IsSpace(Head(s)) THEN LStrip(s) ELSE <<"!">>

\* datetime.strptime(s, "%B %d, %Y"): [ok, m, d, y]
strptime(s) ==
    LET fail == [ok |-> FALSE, m |-> 0, d |-> 0, y |-> 0]
        ms == {m \in 1..12 : StartsWith(s, MonthNames[m])}
    IN  IF ms = {} THEN fail
        ELSE
        LET m == CHOOSE x \in ms : TRUE
            r1 == AfterBlanks(SubSeq(s, Len(MonthNames[m]) + 1, Len(s)))
            parts == Split(r1, <<",">>)
        IN  IF Len(parts) # 2 THEN fail
            ELSE
            LET dd == parts[1]
                yy == AfterBlanks(parts[2])
            IN  IF /\ AllDigits(dd) /\ Len(dd) <= 2
                   /\ AllDigits(yy) /\ Len(yy) = 4
                   /\ DigitsVal(yy) >= 1
                   /\ DigitsVal(dd) >= 1
                   /\ DigitsVal(dd) <= DaysInMonth(m, DigitsVal(yy))
                THEN [ok |-> TRUE, m |-> m, d |-> DigitsVal(dd), y |-> DigitsVal(yy)]
                ELSE fail

\* date_obj.strftime("%m/%d/%Y")
\* month and day without their leading zero
strftime_Unpadded(t) ==
    NatStr(t.m) \o <<"/">> \o NatStr(t.d) \o <<"/">> \o Pad(NatStr(t.y), 4)

strftime(t) ==
    Pad(NatStr(t.m), 2) \o <<"/">> \o Pad(NatStr(t.d), 2) \o <<"/">> \o Pad(NatStr(t.y), 4)

convert_date(date_str) ==
    LET t == strptime(date_str)
    IN  IF t.ok THEN strftime(t) ELSE date_str

(***************************************************************************)
(* process_file: one export file to a list of rows, or None.               *)
(* A file is [name, readable, lines]; lines are the result of readlines(), *)
(* each ending with a newline.  A row (the dict state_data) is             *)
(* [State, Date, obs], obs a function from the keys "<var> - <category>",  *)
(* written <<var, category>>, to values.  A value is None or a float.      *)
(***************************************************************************)
None == <<>>

Float(n) == <<n>>

AllInstitutions == <<"A", "l", "l", " ", "I", "n", "s", "t", "i", "t", "u", "t", "i", "o", "n", "s">>

AssetsLess == <<"A", "s", "s", "e", "t", "s", " ", "L", "e", "s", "s", " ", "T", "h", "a", "n", " ", "$", "1", " ", "B", "i", "l", "l", "i", "o", "n">>

AssetsGreater == <<"A", "s", "s", "e", "t", "s", " ", "G", "r", "e", "a", "t", "e", "r", " ", "T", "h", "a", "n", " ", "$", "1", " ", "B", "i", "l", "l", "i", "o", "n">>

\* the dict category_indices: the 0-based flat indices of a category, by position
category_indices ==
    [c \in {AllInstitutions, AssetsLess, AssetsGreater} |->
        IF c = AllInstitutions THEN <<0, 3, 6>>
        ELSE IF c = AssetsLess THEN <<1, 4, 7>>
        ELSE <<2, 5, 8>>]

\* category_indices[category][i], i the 0-based position of the state in states
\* the indices of Under-$1B and Over-$1B exchanged
CategoryIndex_Swapped(category, i) ==
    IF category = AssetsLess THEN category_indices[AssetsGreater][i + 1]
    ELSE IF category = AssetsGreater THEN category_indices[AssetsLess][i + 1]
    ELSE category_indices[category][i + 1]

CategoryIndex(category, i) == category_indices[category][i + 1]

\* lines[4].split('",,,"')[0].split('\n')[-1].strip()
DateText(lines) ==
    LET first == Split(lines[5], <<Q, ",", ",", ",", Q>>)[1]
        segs == Split(first, <<NL>>)
    IN  Strip(segs[Len(segs)])

\* state_line.strip().strip('"')
Label(state_line) == StripChar(Strip(state_line), Q)

\* the acceptance test of a jurisdiction label
Accepted(state) ==
    /\ state # <<>>
    /\ ~Contains(state, <<"N", "a", "t", "i", "o", "n", "a", "l">>)
    /\ ~\E m \in 1..12 : Contains(state, MonthNames[m])

\* the list states: the accepted labels of lines 3, 6 and 9, in that order
States(lines) == SelectSeq(<<Label(lines[4]), Label(lines[7]), Label(lines[10])>>, Accepted)

\* the first line containing var, if any
HasLine(lines, var) == \E k \in 1..Len(lines) : Contains(lines[k], var)

VarLine(lines, var) ==
    lines[CHOOSE k \in 1..Len(lines) :
            /\ Contains(lines[k], var)
            /\ \A j \in 1..(k - 1) : ~Contains(lines[j], var)]

ZeroStar == <<"0", "*">>

\* the fields var_line.split('"')[3::2] that are not blank
\* a 0* field dropped like a blank one
ValueFields_DropZeroStar(var_line) ==
    SelectSeq(EverySecondFrom(Split(var_line, <<Q>>), 3),
              LAMBDA x : Strip(x) # <<>> /\ Strip(x) # ZeroStar)

ValueFields(var_line) ==
    SelectSeq(EverySecondFrom(Split(var_line, <<Q>>), 3), LAMBDA x : Strip(x) # <<>>)

\* whether float(x.replace(',', '')) raises for a non-blank field x
FieldRaises(x) == Strip(x) # ZeroStar /\ ~IsNumber(RemoveChar(x, ","))

\* the value appended for a non-blank field x
FieldValue(x) == IF Strip(x) = ZeroStar THEN 0 ELSE NumberVal(RemoveChar(x, ","))

ValuesRaise(var_line) ==
    \E k \in 1..Len(ValueFields(var_line)) : FieldRaises(ValueFields(var_line)[k])

\* the list values built from var_line
Values(var_line) ==
    LET fs == ValueFields(var_line) IN [k \in 1..Len(fs) |-> FieldValue(fs[k])]

\* state_data for the state at 0-based position i
\* a metric without a row left out of state_data
StateData_SkipMissing(lines, i, state, date, selected_variables, institution_categories) ==
    LET vars == {selected_variables[k] : k \in 1..Len(selected_variables)}
        cats == {institution_categories[k] : k \in 1..Len(institution_categories)}
        keys == {kc \in vars \X cats :
                    HasLine(lines, kc[1]) /\ kc[2] \in DOMAIN category_indices}
    IN  [State |-> state,
         Date |-> date,
         obs |-> [kc \in keys |->
                    LET values == Values(VarLine(lines, kc[1]))
                        idx == CategoryIndex(kc[2], i)
                    IN  IF idx < Len(values) THEN Float(values[idx + 1]) ELSE None]]

StateData(lines, i, state, date, selected_variables, institution_categories) ==
    LET vars == {selected_variables[k] : k \in 1..Len(selected_variables)}
        cats == {institution_categories[k] : k \in 1..Len(institution_categories)}
        keys == {kc \in vars \X cats :
                    HasLine(lines, kc[1]) => kc[2] \in DOMAIN category_indices}
    IN  [State |-> state,
         Date |-> date,
         obs |-> [kc \in keys |->
                    IF ~HasLine(lines, kc[1]) THEN None
                    ELSE LET values == Values(VarLine(lines, kc[1]))
                             idx == CategoryIndex(kc[2], i)
                         IN  IF idx < Len(values) THEN Float(values[idx + 1]) ELSE None]]

\* whether the body of process_file raises (caught by its except clause)
ProcessRaises(file, selected_variables) ==
    \/ ~file.readable
    \/ Len(file.lines) < 10
    \/ /\ States(file.lines) # <<>>
       /\ \E k \in 1..Len(selected_variables) :
            /\ HasLine(file.lines, selected_variables[k])
            /\ ValuesRaise(VarLine(file.lines, selected_variables[k]))

\* the return value: [none |-> TRUE] for None, else the list results
\* the missing lines of a short file read as blank lines instead of raising
process_file_ShortFileRead(file, selected_variables, institution_categories) ==
    LET lines == IF file.readable /\ Len(file.lines) < 10
                 THEN file.lines \o [k \in 1..(10 - Len(file.lines)) |-> <<NL>>]
                 ELSE file.lines
        padded == [file EXCEPT !.lines = lines]
    IN  IF ProcessRaises(padded, selected_variables)
        THEN [none |-> TRUE, rows |-> <<>>]
        ELSE LET states == States(lines)
                 date == convert_date(DateText(lines))
             IN  [none |-> FALSE,
                  rows |-> [i \in 1..Len(states) |->
                              StateData(lines, i - 1, states[i], date,
                                        selected_variables, institution_categories)]]

process_file(file, selected_variables, institution_categories) ==
    IF ProcessRaises(file, selected_variables)
    THEN [none |-> TRUE, rows |-> <<>>]
    ELSE LET states == States(file.lines)
             date == convert_date(DateText(file.lines))
         IN  [none |-> FALSE,
              rows |-> [i \in 1..Len(states) |->
                          StateData(file.lines, i - 1, states[i], date,
                                    selected_variables, institution_categories)]]

(***************************************************************************)
(* combine_data: the sort key, the sort, and the rows written.             *)
(***************************************************************************)
\* re.compile(r'^[A-Z]{2,6}\d{6}\.csv$').match(basename)
IsUpper(c) == Ord(c) >= Ord("A") /\ Ord(c) <= Ord("Z")

\* the pattern without its end: r'^[A-Z]{2,6}\d{6}'
state_date_pattern_Prefix(name) ==
    \E k \in 2..6 :
        /\ Len(name) >= k + 6
        /\ \A i \in 1..k : IsUpper(name[i])
        /\ \A i \in (k + 1)..(k + 6) : IsDigit(name[i])

state_date_pattern(name) ==
    LET n == Len(name)
    IN  /\ n >= 12
        /\ n <= 16
        /\ SubSeq(name, n - 3, n) = <<".", "c", "s", "v">>
        /\ \A i \in (n - 9)..(n - 4) : IsDigit(name[i])
        /\ \A i \in 1..(n - 10) : IsUpper(name[i])

\* whether sort_key(row) raises: three date parts, one of them no int
KeyRaises(row) ==
    LET date_parts == Split(row.Date, <<"/">>)
    IN  Len(date_parts) = 3 /\ \E k \in 1..3 : ~IsNumber(date_parts[k])

\* sort_key(row): (state, year, month, day), or the fallback (state, row['Date'])
\* the date parts kept in their written order: month, day, year
sort_key_MonthFirst(row) ==
    LET date_parts == Split(row.Date, <<"/">>)
    IN  IF Len(date_parts) = 3
        THEN [state |-> row.State, parsed |-> TRUE,
              ymd |-> <<NumberVal(date_parts[1]), NumberVal(date_parts[2]),
                        NumberVal(date_parts[3])>>,
              raw |-> <<>>]
        ELSE [state |-> row.State, parsed |-> FALSE, ymd |-> <<0, 0, 0>>, raw |-> row.Date]

sort_key(row) ==
    LET date_parts == Split(row.Date, <<"/">>)
    IN  IF Len(date_parts) = 3
        THEN [state |-> row.State, parsed |-> TRUE,
              ymd |-> <<NumberVal(date_parts[3]), NumberVal(date_parts[1]),
                        NumberVal(date_parts[2])>>,
              raw |-> <<>>]
        ELSE [state |-> row.State, parsed |-> FALSE, ymd |-> <<0, 0, 0>>, raw |-> row.Date]

\* tuple comparison a < b stops at the first differing element; comparing an int
\* year with a str date raises TypeError
KeysIncomparable(a, b) == a.state = b.state /\ a.parsed # b.parsed

KeyLess(a, b) ==
    IF a.state # b.state THEN StrLess(a.state, b.state)
    ELSE IF a.parsed
         THEN \/ a.ymd[1] < b.ymd[1]
              \/ a.ymd[1] = b.ymd[1] /\ a.ymd[2] < b.ymd[2]
              \/ a.ymd[1] = b.ymd[1] /\ a.ymd[2] = b.ymd[2] /\ a.ymd[3] < b.ymd[3]
         ELSE StrLess(a.raw, b.raw)

\* sorted(all_data, key=sort_key) raises: a key raises, or two rows of one state
\* have keys of different shapes (every sort order has two such rows adjacent, and
\* adjacent rows are compared)
SortRaises(all_data) ==
    \/ \E i \in 1..Len(all_data) : KeyRaises(all_data[i])
    \/ \E i, j \in 1..Len(all_data) :
            KeysIncomparable(sort_key(all_data[i]), sort_key(all_data[j]))

\* insertion of row behind every row of done that is not greater (a stable sort)
RECURSIVE Insert(_, _)
Insert(done, row) ==
    IF done = <<>> THEN <<row>>
    ELSE IF KeyLess(sort_key(row), sort_key(Head(done)))
         THEN <<row>> \o done
         ELSE <<Head(done)>> \o Insert(Tail(done), row)

RECURSIVE Sorted(_)
Sorted(all_data) ==
    IF all_data = <<>> THEN <<>>
    ELSE Insert(Sorted(SubSeq(all_data, 1, Len(all_data) - 1)), all_data[Len(all_data)])

\* str(v) of a value: 'None', or the repr of a float with an integral value
ValueStr(v) == IF v = None THEN <<"N", "o", "n", "e">> ELSE IntStr(v[1]) \o <<".", "0">>

\* str(row.get(f"{var} - {category}", ''))
Cell(row, var, category) ==
    IF <<var, category>> \in DOMAIN row.obs THEN ValueStr(row.obs[<<var, category>>]) ELSE <<>>

\* the pairs (var, category) in request order
RECURSIVE Combos(_, _)
Combos(selected_variables, institution_categories) ==
    IF selected_variables = <<>> THEN <<>>
    ELSE [k \in 1..Len(institution_categories) |->
            <<Head(selected_variables), institution_categories[k]>>]
         \o Combos(Tail(selected_variables), institution_categories)

HeaderLine(selected_variables, institution_categories) ==
    LET cs == Combos(selected_variables, institution_categories)
    IN  Join(<<<<"O", "b", "s">>, <<"S", "t", "a", "t", "e">>, <<"D", "a", "t", "e">>>>
             \o [k \in 1..Len(cs) |-> cs[k][1] \o <<" ", "-", " ">> \o cs[k][2]], <<",">>) \o <<NL>>

\* the line written for the i-th row of the sorted data
RowLine(i, row, selected_variables, institution_categories) ==
    LET cs == Combos(selected_variables, institution_categories)
    IN  Join(<<IntStr(i), row.State, row.Date>>
             \o [k \in 1..Len(cs) |-> Cell(row, cs[k][1], cs[k][2])], <<",">>) \o <<NL>>

\* the lines of combined_fdic_data.csv after the with-block: the header alone when
\* sorted() raises, since the header is written before the sort
Written(all_data, selected_variables, institution_categories) ==
    <<HeaderLine(selected_variables, institution_categories)>>
    \o (IF SortRaises(all_data) THEN <<>>
        ELSE LET rows == Sorted(all_data)
             IN  [i \in 1..Len(rows) |->
                    RowLine(i, rows[i], selected_variables, institution_categories)])

(***************************************************************************)
(* get_available_variables: the metric names of the first file glob lists. *)
(***************************************************************************)
IsLower(c) == Ord(c) >= Ord("a") /\ Ord(c) <= Ord("z")

\* str.isupper(): at least one cased character and no lower-case one
isupper(s) ==
    /\ \E i \in 1..Len(s) : IsUpper(s[i])
    /\ \A i \in 1..Len(s) : ~IsLower(s[i])

\* the loop over lines: [raised, variables]; line.split('"')[1] raises IndexError
\* for a line without a double quote
RECURSIVE ScanLines(_, _, _)
ScanLines(lines, start_collecting, found) ==
    IF lines = <<>> THEN [raised |-> FALSE, variables |-> found]
    ELSE LET line == Head(lines)
         IN  IF Contains(line, <<"A", "G", "G", "R", "E", "G", "A", "T", "E", " ", "C", "O", "N", "D", "I", "T", "I", "O", "N">>)
             THEN ScanLines(Tail(lines), TRUE, found)
             ELSE IF start_collecting /\ isupper(Strip(line))
             THEN [raised |-> FALSE, variables |-> found]
             ELSE IF start_collecting /\ Strip(line) # <<>>
             THEN LET parts == Split(line, <<Q>>)
                  IN  IF Len(parts) < 2 THEN [raised |-> TRUE, variables |-> <<>>]
                      ELSE LET var == Strip(parts[2])
                           IN  ScanLines(Tail(lines), start_collecting,
                                         IF var # <<>> /\ ~\E k \in 1..Len(found) : found[k] = var
                                         THEN Append(found, var)
                                         ELSE found)
             ELSE ScanLines(Tail(lines), start_collecting, found)

\* the return value for the listing l of glob: no file, or an exception, gives []
get_available_variables(l) ==
    IF l = <<>> THEN <<>>
    ELSE IF ~l[1].readable THEN <<>>
    ELSE LET r == ScanLines(l[1].lines, FALSE, <<>>)
         IN  IF r.raised THEN <<>> ELSE r.variables

(***************************************************************************)
(* log_transform_fdic_data (log_transform_fdic.py).  A float is a record   *)
(* [nan, v]: not-a-number, or the number v / Scale; the model computes     *)
(* with four decimals, and to_csv writes a float with its four decimals.   *)
(***************************************************************************)
Scale == 10000

\* ln 2, in units of 1 / Scale
Ln2 == 6931

NaN == [nan |-> TRUE, v |-> 0]

Num(v) == [nan |-> FALSE, v |-> v]

\* the texts read_csv takes for a missing value (those the characters of the model
\* can spell)
na_values ==
    { <<>>, <<"N", "/", "A">>, <<"N", "A">>, <<"N", "U", "L", "L">>, <<"N", "a", "N">>, <<"-", "N", "a", "N">>, <<"N", "o", "n", "e">>, <<"n", "/", "a">>, <<"n", "a", "n">>,
      <<"-", "n", "a", "n">>, <<"n", "u", "l", "l">> }

\* whether the text is a decimal number: an optional sign, digits, and at most four
\* decimals after an optional point
IsDecimal(s) ==
    LET parts == Split(Unsigned(s), <<".">>)
    IN  /\ Len(parts) \in {1, 2}
        /\ AllDigits(parts[1])
        /\ Len(parts) = 2 => (AllDigits(parts[2]) /\ Len(parts[2]) <= 4)

\* whether the text is a decimal integer
IsInteger(s) == AllDigits(Unsigned(s))

\* the float of a decimal text
DecimalVal(s) ==
    LET parts == Split(Unsigned(s), <<".">>)
        frac == IF Len(parts) = 2 THEN parts[2] ELSE <<>>
        abs == Scale * DigitsVal(parts[1])
               + DigitsVal(frac \o [k \in 1..(4 - Len(frac)) |-> "0"])
    IN  IF Head(s) = "-" THEN 0 - abs ELSE abs

\* the text of a float: the digits before the point and four decimals
FloatStr(x) ==
    IF x.nan THEN <<>>
    ELSE LET abs == IF x.v < 0 THEN 0 - x.v ELSE x.v
         IN  (IF x.v < 0 THEN <<"-">> ELSE <<>>)
             \o NatStr(abs \div Scale) \o <<".">> \o Pad(NatStr(abs % Scale), 4)

\* the cells of a line of the table
Fields(line) ==
    Split(IF line # <<>> /\ line[Len(line)] = NL THEN SubSeq(line, 1, Len(line) - 1) ELSE line,
          <<",">>)

\* pd.read_csv(input_file): [raised, columns, rows]; a row shorter than the header
\* is filled with missing values, a file without a line or with a longer row raises
read_csv(lines) ==
    IF lines = <<>> \/ \E k \in 2..Len(lines) : Len(Fields(lines[k])) > Len(Fields(lines[1]))
    THEN [raised |-> TRUE, columns |-> <<>>, rows |-> <<>>]
    ELSE LET columns == Fields(lines[1])
         IN  [raised |-> FALSE,
              columns |-> columns,
              rows |-> [k \in 1..(Len(lines) - 1) |->
                          [c \in 1..Len(columns) |->
                              IF c <= Len(Fields(lines[k + 1]))
                              THEN Fields(lines[k + 1])[c] ELSE <<>>]]]

\* the cells of column c
Column(df, c) == [k \in 1..Len(df.rows) |-> df.rows[k][c]]

\* whether read_csv gives the column a numeric dtype
IsNumeric(col) == \A k \in 1..Len(col) : col[k] \in na_values \/ IsDecimal(col[k])

IsIntColumn(col) == \A k \in 1..Len(col) : IsInteger(col[k])

\* the floats of a numeric column
Data(col) == [k \in 1..Len(col) |-> IF col[k] \in na_values THEN NaN ELSE Num(DecimalVal(col[k]))]

\* data[data > 0].min(): NaN when no value is positive
min_positive(data) ==
    LET pos == {data[k].v : k \in {j \in 1..Len(data) : ~data[j].nan /\ data[j].v > 0}}
    IN  IF pos = {} THEN NaN ELSE Num(CHOOSE m \in pos : \A x \in pos : m <= x)

\* data.replace(0, small_number) when min_positive is a number
\* the zeros replaced by min_positive itself
Replaced_WholeMinimum(data) ==
    LET m == min_positive(data)
    IN  IF m.nan THEN data
        ELSE [k \in 1..Len(data) |->
                IF ~data[k].nan /\ data[k].v = 0 THEN Num(m.v) ELSE data[k]]

Replaced(data) ==
    LET m == min_positive(data)
    IN  IF m.nan THEN data
        ELSE LET small_number == m.v \div 100
             IN  [k \in 1..Len(data) |->
                    IF ~data[k].nan /\ data[k].v = 0 THEN Num(small_number) ELSE data[k]]

\* np.sign
sign(x) == IF x.nan THEN NaN ELSE Num(IF x.v > 0 THEN 1 ELSE IF x.v < 0 THEN -1 ELSE 0)

\* np.abs
abs(x) == IF x.nan THEN NaN ELSE Num(IF x.v < 0 THEN 0 - x.v ELSE x.v)

\* num / den halved until it is below 2: [num, den, k] with num / den in [1, 2)
RECURSIVE Halved(_, _, _)
Halved(num, den, k) ==
    IF num >= 2 * den THEN Halved(num, 2 * den, k + 1) ELSE [num |-> num, den |-> den, k |-> k]

\* np.log1p for x >= 0: ln(1 + x) = k ln 2 + 2 artanh((m - 1) / (m + 1)) with
\* 1 + x = 2^k m, the series cut after the ninth power
log1p(x) ==
    IF x.nan THEN NaN
    ELSE LET h == Halved(Scale + x.v, Scale, 0)
             z == (Scale * (h.num - h.den)) \div (h.num + h.den)
             z2 == (z * z) \div Scale
             t3 == (z * z2) \div Scale
             t5 == (t3 * z2) \div Scale
             t7 == (t5 * z2) \div Scale
             t9 == (t7 * z2) \div Scale
         IN  Num(h.k * Ln2 + 2 * (z + t3 \div 3 + t5 \div 5 + t7 \div 7 + t9 \div 9))

\* signs * logs
Times(s, l) == IF s.nan \/ l.nan THEN NaN ELSE Num(s.v * l.v)

\* the new values of a numeric column that is not skipped
\* the logarithm of the magnitude alone, without its sign
Transformed_Unsigned(col) ==
    LET data == Replaced(Data(col))
    IN  [k \in 1..Len(data) |-> log1p(abs(data[k]))]

Transformed(col) ==
    LET data == Replaced(Data(col))
    IN  [k \in 1..Len(data) |-> Times(sign(data[k]), log1p(abs(data[k])))]

\* skip_columns
skip_columns == {<<"O", "b", "s">>, <<"S", "t", "a", "t", "e">>, <<"D", "a", "t", "e">>}

\* what to_csv writes for a cell of a column that was not transformed
Untouched(col, k) ==
    IF col[k] \in na_values THEN <<>>
    ELSE IF IsIntColumn(col) THEN IntStr(NumberVal(col[k]))
    ELSE IF IsNumeric(col) THEN FloatStr(Num(DecimalVal(col[k])))
    ELSE col[k]

\* input_file.rsplit('.', 1): the place of the last point, 0 when there is none
LastPoint(path) ==
    IF \E i \in 1..Len(path) : path[i] = "."
    THEN CHOOSE i \in 1..Len(path) :
            path[i] = "." /\ \A j \in (i + 1)..Len(path) : path[j] # "."
    ELSE 0

\* f"{base}_log.{ext}"
\* the output written over the input
output_path_SamePath(path) == path

output_path(path) ==
    SubSeq(path, 1, LastPoint(path) - 1) \o <<"_", "l", "o", "g", ".">>
    \o SubSeq(path, LastPoint(path) + 1, Len(path))

\* the body of log_transform_fdic_data: [raised, path, lines].  It raises when
\* read_csv raises, when a column that is not skipped is not numeric (data > 0)
\* and when input_file has no point; nothing is written then.
log_transform_fdic_data(path, lines) ==
    LET df == read_csv(lines)
        failed == [raised |-> TRUE, path |-> <<>>, lines |-> <<>>]
    IN  IF df.raised THEN failed
        ELSE IF \E c \in 1..Len(df.columns) :
                    df.columns[c] \notin skip_columns /\ ~IsNumeric(Column(df, c))
        THEN failed
        ELSE IF LastPoint(path) = 0 THEN failed
        ELSE [raised |-> FALSE,
              path |-> output_path(path),
              lines |-> <<Join(df.columns, <<",">>) \o <<NL>>>>
                        \o [k \in 1..Len(df.rows) |->
                              Join([c \in 1..Len(df.columns) |->
                                      IF df.columns[c] \in skip_columns
                                      THEN Untouched(Column(df, c), k)
                                      ELSE FloatStr(Transformed(Column(df, c))[k])],
                                   <<",">>) \o <<NL>>]]

(***************************************************************************)
(* The export files of the directory.  An export has its jurisdiction      *)
(* labels on lines 3, 6 and 9, the period on line 4 before the text ",,,"  *)
(* between quotes, and one quoted row per metric.                          *)
(***************************************************************************)
Blank == <<NL>>

LabelLine(label) == <<Q>> \o label \o <<NL>>

DateLine(text) == text \o <<Q, ",", ",", ",", Q, NL>>

RECURSIVE QuotedFields(_)
QuotedFields(fields) ==
    IF fields = <<>> THEN <<>>
    ELSE <<",", Q>> \o Head(fields) \o <<Q>> \o QuotedFields(Tail(fields))

MetricRow(name, fields) == <<Q>> \o name \o <<Q>> \o QuotedFields(fields) \o <<NL>>

\* a section header of an export: upper-case text between quotes
SectionLine(title) == <<Q>> \o title \o <<Q, NL>>

AggregateSection == <<"A", "G", "G", "R", "E", "G", "A", "T", "E", " ", "C", "O", "N", "D", "I", "T", "I", "O", "N", " ", "A", "N", "D", " ", "I", "N", "C", "O", "M", "E", " ", "D", "A", "T", "A">>

RatioSection == <<"P", "E", "R", "F", "O", "R", "M", "A", "N", "C", "E", " ", "R", "A", "T", "I", "O", "S">>

YieldOnAssets == <<"Y", "i", "e", "l", "d", " ", "o", "n", " ", "A", "s", "s", "e", "t", "s">>

ExportLines(l3, l6, l9, date, rows) ==
    << <<"F", "D", "I", "C", " ", "S", "t", "a", "t", "e", " ", "T", "a", "b", "l", "e", "s">> \o <<NL>>, Blank, Blank, LabelLine(l3), DateLine(date), Blank,
       LabelLine(l6), Blank, Blank, LabelLine(l9), SectionLine(AggregateSection) >> \o rows

TotalDeposits == <<"T", "o", "t", "a", "l", " ", "D", "e", "p", "o", "s", "i", "t", "s">>

TotalAssets == <<"T", "o", "t", "a", "l", " ", "A", "s", "s", "e", "t", "s">>

NetIncome == <<"N", "e", "t", " ", "I", "n", "c", "o", "m", "e">>

Other == <<"O", "t", "h", "e", "r">>

Alabama == <<"A", "l", "a", "b", "a", "m", "a">>

Alaska == <<"A", "l", "a", "s", "k", "a">>

Arizona == <<"A", "r", "i", "z", "o", "n", "a">>

California == <<"C", "a", "l", "i", "f", "o", "r", "n", "i", "a">>

\* three jurisdictions, nine values per row
File1 ==
    [name |-> <<"A", "L", "A", "K", "A", "Z", "2", "0", "1", "9", "0", "3", ".", "c", "s", "v">>, readable |-> TRUE,
     lines |-> ExportLines(Alabama, Alaska, Arizona, <<"M", "a", "r", "c", "h", " ", "3", "1", ",", " ", "2", "0", "1", "9">>,
        << MetricRow(TotalDeposits, << <<"1", "0">>, <<"1">>, <<"2">>, <<"2", "0">>, <<"3">>, <<"4">>,
                                       <<"3", "0">>, <<"5">>, <<"6">> >>),
           MetricRow(TotalAssets, << <<"1", ",", "2", "3", "4">>, <<"5">>, <<"0", "*">>, <<"-", "8">>, <<"9">>, <<"0">>,
                                     <<"1", "1">>, <<"1", "2">>, <<" ", "7", " ">> >>) >>)]

\* one jurisdiction (the other labels are rejected), a later period, three values
File2 ==
    [name |-> <<"A", "L", "2", "0", "1", "9", "0", "6", ".", "c", "s", "v">>, readable |-> TRUE,
     lines |-> ExportLines(Alabama, <<"N", "a", "t", "i", "o", "n", "a", "l">>, <<"J", "u", "n", "e", " ", "3", "0", ",", " ", "2", "0", "1", "9">>, <<"J", "u", "n", "e", " ", "3", "0", ",", " ", "2", "0", "1", "9">>,
        << MetricRow(TotalDeposits, << <<"4", "0">>, <<"4", "1">>, <<"4", "2">> >>),
           MetricRow(TotalAssets, << <<"5", "0">>, <<"5", "1">>, <<"5", "2">> >>),
           MetricRow(NetIncome, << <<"6", "0">>, <<"6", "1">>, <<"6", "2">> >>),
           SectionLine(RatioSection),
           MetricRow(YieldOnAssets, << <<"1">>, <<"2">>, <<"3">> >>) >>)]

\* three jurisdictions, two of them and the period as in File1, seven values
File3 ==
    [name |-> <<"A", "K", "A", "L", "C", "A", "2", "0", "1", "9", "0", "3", ".", "c", "s", "v">>, readable |-> TRUE,
     lines |-> ExportLines(Alaska, Alabama, California, <<"M", "a", "r", "c", "h", " ", "3", "1", ",", " ", "2", "0", "1", "9">>,
        << MetricRow(TotalDeposits, << <<"7", "0">>, <<"7", "1">>, <<"7", "2">>, <<"7", "3">>, <<"7", "4">>, <<"7", "5">>,
                                       <<"7", "6">> >>),
           MetricRow(TotalAssets, << <<"8", "0">>, <<"8", "1">>, <<"8", "2">>, <<"8", "3">>, <<"8", "4">>, <<"8", "5">>,
                                     <<"8", "6">> >>) >>)]

\* an earlier period of the year before: 12/31/2018 sorts before 03/31/2019
File4 ==
    [name |-> <<"C", "A", "2", "0", "1", "8", "1", "2", ".", "c", "s", "v">>, readable |-> TRUE,
     lines |-> ExportLines(California, <<>>, <<>>, <<"D", "e", "c", "e", "m", "b", "e", "r", " ", "3", "1", ",", " ", "2", "0", "1", "8">>,
        << MetricRow(TotalDeposits, << <<"9", "0">>, <<"9", "1">>, <<"9", "2">> >>) >>)]

\* periods that strptime rejects
File5 ==
    [name |-> <<"C", "A", "2", "0", "1", "9", "0", "9", ".", "c", "s", "v">>, readable |-> TRUE,
     lines |-> ExportLines(California, <<>>, <<>>, <<"Q", "3", " ", "2", "0", "1", "9">>,
        << MetricRow(TotalDeposits, << <<"9", "3">>, <<"9", "4">>, <<"9", "5">> >>) >>)]

File6 ==
    [name |-> <<"A", "Z", "C", "A", "2", "0", "1", "9", "0", "3", ".", "c", "s", "v">>, readable |-> TRUE,
     lines |-> ExportLines(Arizona, California, <<>>, <<"S", "e", "p", "t", " ", "3", "0", ",", " ", "2", "0", "1", "9">>,
        << MetricRow(TotalDeposits, << <<"9", "6">>, <<"9", "7">>, <<"9", "8">>, <<"9", "9">>, <<"1", "0", "0">>, <<"1", "0", "1">> >>) >>)]

\* fewer lines than line index 9 requires
File7 ==
    [name |-> <<"T", "X", "2", "0", "1", "9", "0", "3", ".", "c", "s", "v">>, readable |-> TRUE,
     lines |-> SubSeq(File1.lines, 1, 7)]

\* cannot be opened
File8 ==
    [name |-> <<"N", "Y", "2", "0", "1", "9", "0", "3", ".", "c", "s", "v">>, readable |-> FALSE, lines |-> <<>>]

\* a value field that is no number
File9 ==
    [name |-> <<"A", "Z", "2", "0", "1", "9", "0", "6", ".", "c", "s", "v">>, readable |-> TRUE,
     lines |-> ExportLines(Arizona, <<>>, <<>>, <<"J", "u", "n", "e", " ", "3", "0", ",", " ", "2", "0", "1", "9">>,
        << MetricRow(TotalDeposits, << <<"1", "1", "0">>, <<"N", "/", "A">>, <<"1", "1", "2">> >>),
           MetricRow(TotalAssets, << <<"1", "2", "0">>, <<"1", "2", "1">>, <<"1", "2", "2">> >>) >>)]

\* a name that is no export name: the copy of a second download of File2's export
File10 ==
    [name |-> <<"A", "L", "2", "0", "1", "9", "0", "6", "_", "2", "0", "2", "4", "0", "1", "0", "1", "_", "1", "2", "0", "0", "0", "0", ".", "c", "s", "v">>, readable |-> TRUE,
     lines |-> File2.lines]

\* three jurisdictions, the second value field of the Total Deposits row blank
File11 ==
    [name |-> <<"A", "L", "A", "K", "A", "Z", "2", "0", "1", "9", "0", "6", ".", "c", "s", "v">>, readable |-> TRUE,
     lines |-> ExportLines(Alabama, Alaska, Arizona, <<"J", "u", "n", "e", " ", "3", "0", ",", " ", "2", "0", "1", "9">>,
        << MetricRow(TotalDeposits, << <<"1", "0">>, <<>>, <<"2">>, <<"2", "0">>, <<"3">>, <<"4">>,
                                       <<"3", "0">>, <<"5">>, <<"6">> >>),
           MetricRow(TotalAssets, << <<"1", "1">>, <<"7">>, <<"8">>, <<"2", "1">>, <<"9">>, <<"1", "2">>,
                                     <<"3", "1">>, <<"1", "3">>, <<"1", "4">> >>) >>)]

\* the label of line 3 rejected, the jurisdiction on line 6, nine values per row
File12 ==
    [name |-> <<"A", "L", "2", "0", "1", "9", "0", "3", ".", "c", "s", "v">>, readable |-> TRUE,
     lines |-> ExportLines(<<"N", "a", "t", "i", "o", "n", "a", "l">>, Alabama, <<>>, <<"M", "a", "r", "c", "h", " ", "3", "1", ",", " ", "2", "0", "1", "9">>,
        << MetricRow(TotalDeposits, << <<"1", "0">>, <<"1">>, <<"2">>, <<"2", "0">>, <<"3">>, <<"4">>,
                                       <<"3", "0">>, <<"5">>, <<"6">> >>),
           MetricRow(TotalAssets, << <<"1", "1">>, <<"7">>, <<"8">>, <<"2", "1">>, <<"9">>, <<"1", "2">>,
                                     <<"3", "1">>, <<"1", "3">>, <<"1", "4">> >>) >>)]

FilePool == {File1, File2, File3, File4, File5, File6, File7, File8, File9, File10, File11, File12}

\* the requests: (selected_variables, institution_categories)
DefaultRequest == << <<TotalDeposits, TotalAssets>>, <<AllInstitutions>> >>

Requests ==
    { DefaultRequest,
      << <<TotalDeposits, NetIncome>>, <<AllInstitutions, AssetsLess, AssetsGreater>> >>,
      << <<TotalAssets>>, <<AssetsGreater, Other>> >> }

MaxFiles == 2

\* the orders in which glob can list up to MaxFiles files of the pool
RECURSIVE Listings(_)
Listings(n) ==
    IF n = 0 THEN {<<>>}
    ELSE Listings(n - 1) \cup
         {Append(l, f) : l \in {x \in Listings(n - 1) : Len(x) = n - 1},
                         f \in FilePool} 

Distinct(l) == \A i, j \in 1..Len(l) : i # j => l[i].name # l[j].name

(***************************************************************************)
(* The directory ~/Downloads/csvs.  dir lists its *.csv files in the order *)
(* glob returns them, which is the order of the file system and not one    *)
(* the program chooses: a file that is created takes any place in it.      *)
(***************************************************************************)
\* 'combined_fdic_data.csv'
output_file == <<"c", "o", "m", "b", "i", "n", "e", "d", "_", "f", "d", "i", "c", "_", "d", "a", "t", "a", ".", "c", "s", "v">>

HasName(l, name) == \E i \in 1..Len(l) : l[i].name = name

\* the listings after the file f was added to the directory listed as l
Inserted(l, f) == {SubSeq(l, 1, k) \o <<f>> \o SubSeq(l, k + 1, Len(l)) : k \in 0..Len(l)}

\* the listings after f was written: created, or truncated and rewritten in place
Stored(l, f) ==
    IF HasName(l, f.name)
    THEN {[i \in 1..Len(l) |-> IF l[i].name = f.name THEN f ELSE l[i]]}
    ELSE Inserted(l, f)

\* the names one of which is the newest file of the listing (none for an empty one)
Names(l) == IF l = <<>> THEN {<<>>} ELSE {l[i].name : i \in 1..Len(l)}

(***************************************************************************)
(* One run of combine_data over the directory.                             *)
(***************************************************************************)
VARIABLES
    dir,                     \* the *.csv files of the directory, in glob order
    selected_variables,      \* the arguments of combine_data
    institution_categories,
    pc,                      \* "idle", "loop", "done" (returned), "raised"
    files,                   \* the files that match state_date_pattern
    idx,                     \* the number of files processed
    results,                 \* the last return value of process_file
    all_data,                \* the rows collected so far
    output,                  \* combined_fdic_data.csv: [exists, lines]
    latest,                  \* the name of the *.csv file with the greatest ctime
    variables,               \* the last return value of get_available_variables
    run,                     \* the number of calls of combine_data that have returned
    renames,                 \* the number of calls of rename_latest_csv
    input_file,              \* the argument of log_transform_fdic_data
    disk,                    \* the files log_transform_fdic_data reads and writes,
                             \* by path: the lines of each
    lpc                      \* "idle", "done" (returned), "raised"

\* the state of log_transform_fdic_data
normalizer == <<input_file, disk, lpc>>

vars == <<dir, selected_variables, institution_categories, pc, files, idx, results,
          all_data, output, latest, variables, run, renames, normalizer>>

\* log_transform_fdic_data is not called
NoTransform == input_file = <<>> /\ disk = <<>> /\ lpc = "idle"

NoResults == [none |-> TRUE, rows |-> <<>>]

\* the value of variables before get_available_variables was called: a list the
\* function never returns, since it appends no empty name
NotCalled == <<<<>>>>

Init ==
    /\ dir \in {l \in Listings(MaxFiles) : Distinct(l)}
    /\ \E r \in Requests : selected_variables = r[1] /\ institution_categories = r[2]
    /\ pc = "idle"
    /\ files = <<>>
    /\ idx = 0
    /\ results = NoResults
    /\ all_data = <<>>
    /\ output = [exists |-> FALSE, lines |-> <<>>]
    /\ latest \in Names(dir)
    /\ variables = NotCalled
    /\ run = 0
    /\ renames = 0
    /\ NoTransform

\* combine_data up to its loop: list the directory, keep the export names
Start ==
    /\ pc = "idle"
    /\ files' = SelectSeq(dir, LAMBDA f : state_date_pattern(f.name))
    /\ pc' = IF files' = <<>> THEN "done" ELSE "loop"
    /\ UNCHANGED <<dir, selected_variables, institution_categories, idx, results,
                   all_data, output, latest, variables, run, renames, normalizer>>

\* one iteration of the loop over files
ProcessFile ==
    /\ pc = "loop"
    /\ idx < Len(files)
    /\ results' = process_file(files[idx + 1], selected_variables, institution_categories)
    /\ all_data' = IF ~results'.none /\ results'.rows # <<>>
                   THEN all_data \o results'.rows
                   ELSE all_data
    /\ idx' = idx + 1
    /\ UNCHANGED <<dir, selected_variables, institution_categories, pc, files, output,
                   latest, variables, run, renames, normalizer>>

\* after the loop: write the table if there is data
\* the table opened for writing before all_data is tested
Save_WriteAlways ==
    /\ pc = "loop"
    /\ idx = Len(files)
    /\ output' = [exists |-> TRUE,
                  lines |-> Written(all_data, selected_variables, institution_categories)]
    /\ dir' \in Stored(dir, [name |-> output_file, readable |-> TRUE,
                             lines |-> output'.lines])
    /\ latest' = output_file
    /\ pc' = IF SortRaises(all_data) THEN "raised" ELSE "done"
    /\ run' = run + 1
    /\ UNCHANGED <<selected_variables, institution_categories, files, idx, results,
                   all_data, variables, renames, normalizer>>

Save ==
    /\ pc = "loop"
    /\ idx = Len(files)
    /\ IF all_data # <<>>
       THEN /\ output' = [exists |-> TRUE,
                          lines |-> Written(all_data, selected_variables,
                                            institution_categories)]
            /\ dir' \in Stored(dir, [name |-> output_file, readable |-> TRUE,
                                     lines |-> output'.lines])
            /\ latest' = output_file
            /\ pc' = IF SortRaises(all_data) THEN "raised" ELSE "done"
       ELSE /\ output' = output
            /\ dir' = dir
            /\ latest' = latest
            /\ pc' = "done"
    /\ run' = run + 1
    /\ UNCHANGED <<selected_variables, institution_categories, files, idx, results,
                   all_data, variables, renames, normalizer>>

Next == Start \/ ProcessFile \/ Save

Spec == Init /\ [][Next]_vars

(***************************************************************************)
(* A session: scraper downloads and further runs of combine_data over the  *)
(* same directory.                                                         *)
(***************************************************************************)
\* generate_filename(states, date)
generate_filename(states, date) == Join(states, <<>>) \o date \o <<".", "c", "s", "v">>

\* the downloads the scraper asks for: the state codes, the period and the
\* lines of the export the site returns
Scrapes ==
    { [states |-> <<<<"A", "L">>>>, date |-> <<"2", "0", "1", "9", "0", "6">>, lines |-> File2.lines] }

\* datetime.now().strftime("%Y%m%d_%H%M%S")
Timestamps == {<<"2", "0", "2", "4", "0", "1", "0", "1", "_", "1", "2", "0", "0", "0", "0">>}

MaxRuns == 2

MaxRenames == 1

Without(l, name) == SelectSeq(l, LAMBDA f : f.name # name)

\* the file of the listing with the given name
FileNamed(l, name) == l[CHOOSE i \in 1..Len(l) : l[i].name = name]

\* download_state_data after the click: rename_latest_csv(states, date).  The
\* newest *.csv is the export just saved when the download has arrived within the
\* two seconds the scraper waits, and the newest file already there when not.
rename_latest_csv ==
    /\ pc = "idle"
    /\ renames < MaxRenames
    /\ \E s \in Scrapes, arrived \in BOOLEAN, timestamp \in Timestamps :
        /\ ~arrived => dir # <<>>
        /\ LET new_filename == generate_filename(s.states, s.date)
               new_name == IF HasName(dir, new_filename)
                           THEN SubSeq(new_filename, 1, Len(new_filename) - 4)
                                \o <<"_">> \o timestamp \o <<".", "c", "s", "v">>
                           ELSE new_filename
               latest_file == IF arrived
                              THEN [name |-> <<>>, readable |-> TRUE, lines |-> s.lines]
                              ELSE FileNamed(dir, latest)
               moved == [latest_file EXCEPT !.name = new_name]
           IN  /\ dir' \in Inserted(Without(Without(dir, latest_file.name), new_name), moved)
               /\ latest' = new_name
               /\ output' = IF HasName(dir', output_file) THEN output
                            ELSE [exists |-> FALSE, lines |-> <<>>]
    /\ UNCHANGED <<selected_variables, institution_categories, pc, files, idx, results,
                   all_data, variables, run, normalizer>>
    /\ renames' = renames + 1

\* menu choice 4 up to its call of combine_data
GetVariables ==
    /\ pc = "idle"
    /\ variables' = get_available_variables(dir)
    /\ UNCHANGED <<dir, selected_variables, institution_categories, pc, files, idx,
                   results, all_data, output, latest, run, renames, normalizer>>

\* combine_data is called again, by the menu loop or by a new run of the program:
\* with the selection of before (choice 4) or with the defaults (choice 5)
Again ==
    /\ pc \in {"done", "raised"}
    /\ run < MaxRuns
    /\ pc' = "idle"
    /\ \E r \in {DefaultRequest, <<selected_variables, institution_categories>>} :
            selected_variables' = r[1] /\ institution_categories' = r[2]
    /\ files' = <<>>
    /\ idx' = 0
    /\ results' = NoResults
    /\ all_data' = <<>>
    /\ UNCHANGED <<dir, output, latest, variables, run, renames, normalizer>>

\* the directories a session starts with
SessionDirs == {<<File2>>, <<File9>>, <<File4, File6>>}

SessionInit == Init /\ dir \in SessionDirs

SessionNext == Next \/ rename_latest_csv \/ Again

Session == SessionInit /\ [][SessionNext]_vars

(***************************************************************************)
(* get_available_variables on sample files: every sequence of at most      *)
(* MaxLines lines drawn from SampleLines, as the first file of the listing.*)
(***************************************************************************)
SampleLines ==
    { SectionLine(AggregateSection),
      SectionLine(RatioSection),
      Blank,
      MetricRow(TotalDeposits, << <<"1">> >>),
      MetricRow(<<" ", "T", "o", "t", "a", "l", " ", "A", "s", "s", "e", "t", "s", " ">>, << <<"2">> >>),
      MetricRow(<<>>, << <<"4">> >>),
      <<"M", "e", "m", "o", ",", "3">> \o <<NL>> }

MaxLines == 4

RECURSIVE LineSeqs(_)
LineSeqs(n) ==
    IF n = 0 THEN {<<>>}
    ELSE LineSeqs(n - 1) \cup
         {Append(l, x) : l \in {y \in LineSeqs(n - 1) : Len(y) = n - 1}, x \in SampleLines}

Samples ==
    {<<>>, <<File8>>}
    \cup {<<[name |-> File2.name, readable |-> TRUE, lines |-> l]>> : l \in LineSeqs(MaxLines)}

CatalogInit ==
    /\ dir \in Samples
    /\ selected_variables = DefaultRequest[1]
    /\ institution_categories = DefaultRequest[2]
    /\ pc = "idle"
    /\ files = <<>>
    /\ idx = 0
    /\ results = NoResults
    /\ all_data = <<>>
    /\ output = [exists |-> FALSE, lines |-> <<>>]
    /\ latest \in Names(dir)
    /\ variables = NotCalled
    /\ run = 0
    /\ renames = 0
    /\ NoTransform

Catalog == CatalogInit /\ [][GetVariables]_vars

(***************************************************************************)
(* log_transform_fdic_data on the tables combine_data writes: the rows of  *)
(* at most MaxRows jurisdictions, each with a value or none in the two     *)
(* columns of the default request.                                         *)
(***************************************************************************)
MaxRows == 3

\* the State and Date of the k-th row of a table
RowState(k) == <<Alabama, Alaska, Arizona>>[((k - 1) % 3) + 1]

RowDate(k) == << <<"0", "3", "/", "3", "1", "/", "2", "0", "1", "9">>, <<"0", "6", "/", "3", "0", "/", "2", "0", "1", "9">>, <<>> >>[((k - 1) % 3) + 1]

\* the observations of the k-th row: Total Deposits and Total Assets of All
\* Institutions, the latter zero in every row but the first
RowValues(k) ==
    {None, Float(-2), Float(0), Float(1), Float(3)}
    \X (IF k = 1 THEN {Float(0), Float(2)} ELSE {Float(0)})

TableRow(k, v) ==
    [State |-> RowState(k),
     Date |-> RowDate(k),
     obs |-> [kc \in {<<TotalDeposits, AllInstitutions>>, <<TotalAssets, AllInstitutions>>} |->
                IF kc[1] = TotalDeposits THEN v[1] ELSE v[2]]]

RECURSIVE ValueSeqs(_)
ValueSeqs(n) ==
    IF n = 0 THEN {<<>>}
    ELSE ValueSeqs(n - 1) \cup
         {Append(l, v) : l \in {y \in ValueSeqs(n - 1) : Len(y) = n - 1}, v \in RowValues(n)}

\* the lines combine_data writes for the rows
TableLines(vs) ==
    <<HeaderLine(DefaultRequest[1], DefaultRequest[2])>>
    \o [k \in 1..Len(vs) |-> RowLine(k, TableRow(k, vs[k]), DefaultRequest[1], DefaultRequest[2])]

\* the paths log_transform_fdic_data is called with
Paths == { <<"c", "o", "m", "b", "i", "n", "e", "d", "_", "f", "d", "i", "c", "_", "d", "a", "t", "a", ".", "c", "s", "v">>, <<"t", "a", "b", "l", "e", "s", ".", "v", "2", "/", "f", "d", "i", "c", ".", "c", "s", "v">>, <<"c", "o", "m", "b", "i", "n", "e", "d">> }

LogInit ==
    /\ dir = <<>>
    /\ selected_variables = DefaultRequest[1]
    /\ institution_categories = DefaultRequest[2]
    /\ pc = "idle"
    /\ files = <<>>
    /\ idx = 0
    /\ results = NoResults
    /\ all_data = <<>>
    /\ output = [exists |-> FALSE, lines |-> <<>>]
    /\ latest = <<>>
    /\ variables = NotCalled
    /\ run = 0
    /\ renames = 0
    /\ input_file \in Paths
    /\ \E vs \in ValueSeqs(MaxRows) : disk = [p \in {input_file} |-> TableLines(vs)]
    /\ lpc = "idle"

\* one call of log_transform_fdic_data(input_file)
LogTransform ==
    /\ lpc = "idle"
    /\ input_file \in DOMAIN disk
    /\ LET r == log_transform_fdic_data(input_file, disk[input_file])
       IN  IF r.raised
           THEN /\ lpc' = "raised"
                /\ disk' = disk
           ELSE /\ lpc' = "done"
                /\ disk' = [p \in DOMAIN disk \cup {r.path} |->
                              IF p = r.path THEN r.lines ELSE disk[p]]
    /\ UNCHANGED <<dir, selected_variables, institution_categories, pc, files, idx, results,
                   all_data, output, latest, variables, run, renames, input_file>>

LogSpec == LogInit /\ [][LogTransform]_vars

(***************************************************************************)
(* Properties.                                                             *)
(***************************************************************************)
\* process_file has just returned for the file cur
Processed == pc = "loop" /\ idx >= 1

cur == files[idx]

\* the file can be read and has the lines 3, 4, 6 and 9
WellFormed(f) == f.readable /\ Len(f.lines) >= 10

Selected(var) == \E k \in 1..Len(selected_variables) : selected_variables[k] = var

Requested(category) ==
    \E k \in 1..Len(institution_categories) : institution_categories[k] = category

\* the categories in their fixed order: All Institutions = 0, Under-$1B = 1, Over-$1B = 2
CategoryOrder == <<AllInstitutions, AssetsLess, AssetsGreater>>

ThreeAccepted(lines) ==
    Accepted(Label(lines[4])) /\ Accepted(Label(lines[7])) /\ Accepted(Label(lines[10]))

Recorded(row, var, category, v) ==
    <<var, category>> \in DOMAIN row.obs /\ row.obs[<<var, category>>] = v

\* C1: for a file whose three labels are accepted and a requested metric whose row
\* yields the values v[0..n-1], jurisdiction i and category c get v[3*i+c] when
\* 3*i+c < n and null otherwise; the row [10,1,2,20,3,4,30,5,6] gives
\* All = [10,20,30], Under = [1,3,5], Over = [2,4,6] in block order.
C1_FlatIndex ==
    (Processed /\ WellFormed(cur) /\ ~results.none /\ ThreeAccepted(cur.lines)) =>
        /\ Len(results.rows) = 3
        /\ \A i \in 0..2, c \in 0..2, k \in 1..Len(selected_variables) :
            LET var == selected_variables[k]
            IN  (HasLine(cur.lines, var) /\ Requested(CategoryOrder[c + 1])) =>
                    LET v == Values(VarLine(cur.lines, var))
                    IN  Recorded(results.rows[i + 1], var, CategoryOrder[c + 1],
                                 IF 3 * i + c < Len(v) THEN Float(v[3 * i + c + 1]) ELSE None)
        /\ (cur = File1 /\ Selected(TotalDeposits)) =>
            \A i \in 0..2 :
                /\ Requested(AllInstitutions) =>
                     Recorded(results.rows[i + 1], TotalDeposits, AllInstitutions,
                              Float(<<10, 20, 30>>[i + 1]))
                /\ Requested(AssetsLess) =>
                     Recorded(results.rows[i + 1], TotalDeposits, AssetsLess,
                              Float(<<1, 3, 5>>[i + 1]))
                /\ Requested(AssetsGreater) =>
                     Recorded(results.rows[i + 1], TotalDeposits, AssetsGreater,
                              Float(<<2, 4, 6>>[i + 1]))

\* a file of three jurisdictions with seven values: the third jurisdiction has its
\* All-Institutions value and null for Under-$1B
C1_Witness ==
    /\ Processed
    /\ cur = File3
    /\ ~results.none
    /\ Recorded(results.rows[3], TotalDeposits, AllInstitutions, Float(76))
    /\ Recorded(results.rows[3], TotalDeposits, AssetsLess, None)

\* the value fields of the row of var that float() rejects
BadField(lines, var) == HasLine(lines, var) /\ ValuesRaise(VarLine(lines, var))

\* C8: a value field that is no number (and not 0*) sets only the affected
\* observation to null: process_file still returns the rows of the file, one per
\* accepted jurisdiction, with the other observations intact.
C8_OnlyAffectedNull ==
    (Processed /\ WellFormed(cur)) =>
        /\ ~results.none
        /\ Len(results.rows) = Len(States(cur.lines))
        /\ \A i \in 1..Len(results.rows), k \in 1..Len(selected_variables) :
            LET var == selected_variables[k]
            IN  (HasLine(cur.lines, var) /\ ~BadField(cur.lines, var)
                 /\ Requested(AllInstitutions)
                 /\ 3 * (i - 1) < Len(Values(VarLine(cur.lines, var)))) =>
                    Recorded(results.rows[i], var, AllInstitutions,
                             Float(Values(VarLine(cur.lines, var))[3 * (i - 1) + 1]))

\* C9: a requested metric that no line contains is recorded as null for every
\* accepted jurisdiction and every requested category; process_file does not raise
\* for it, and the other requested metrics are recorded as usual.
C9_MissingMetricNull ==
    (Processed /\ WellFormed(cur)
     /\ \A k \in 1..Len(selected_variables) : ~BadField(cur.lines, selected_variables[k])) =>
        /\ ~results.none
        /\ Len(results.rows) = Len(States(cur.lines))
        /\ \A i \in 1..Len(results.rows), k \in 1..Len(selected_variables),
              j \in 1..Len(institution_categories) :
            ~HasLine(cur.lines, selected_variables[k]) =>
                Recorded(results.rows[i], selected_variables[k], institution_categories[j],
                         None)
        /\ (cur = File1 /\ Selected(TotalDeposits) /\ Selected(NetIncome)
            /\ Requested(AssetsGreater)) =>
                /\ Recorded(results.rows[1], TotalDeposits, AssetsGreater, Float(2))
                /\ Recorded(results.rows[3], TotalDeposits, AssetsGreater, Float(6))

\* Net Income is requested and File1 has no such row
C9_Witness ==
    /\ Processed
    /\ cur = File1
    /\ Selected(NetIncome)
    /\ ~HasLine(cur.lines, NetIncome)
    /\ Len(results.rows) = 3
    /\ Recorded(results.rows[2], NetIncome, AssetsLess, None)
    /\ Recorded(results.rows[2], TotalDeposits, AssetsLess, Float(3))

\* C10: a value field that is exactly 0* after trimming is parsed to 0.0, not to
\* null and not to an error; any other non-blank field is parsed as a number after
\* its commas are removed.  The Total Assets row of File1 is
\* "1,234","5","0*","-8","9","0","11","12"," 7 ".
C10_ZeroStar ==
    (Processed /\ cur = File1 /\ Selected(TotalAssets)) =>
        /\ ~results.none
        /\ Values(VarLine(cur.lines, TotalAssets)) = <<1234, 5, 0, -8, 9, 0, 11, 12, 7>>
        /\ Requested(AssetsGreater) =>
            /\ Recorded(results.rows[1], TotalAssets, AssetsGreater, Float(0))
            /\ Recorded(results.rows[2], TotalAssets, AssetsGreater, Float(0))
            /\ Recorded(results.rows[3], TotalAssets, AssetsGreater, Float(7))
        /\ Requested(AllInstitutions) =>
            /\ Recorded(results.rows[1], TotalAssets, AllInstitutions, Float(1234))
            /\ Recorded(results.rows[2], TotalAssets, AllInstitutions, Float(-8))
            /\ Recorded(results.rows[3], TotalAssets, AllInstitutions, Float(11))

\* the 0* field of File1 has been parsed for the first jurisdiction
C10_Witness ==
    /\ Processed
    /\ cur = File1
    /\ Strip(ValueFields(VarLine(cur.lines, TotalAssets))[3]) = ZeroStar
    /\ Recorded(results.rows[1], TotalAssets, AssetsGreater, Float(0))

(***************************************************************************)
(* Properties of the table written by combine_data.                        *)
(***************************************************************************)
\* combine_data has left its loop with data: the table was opened for writing
Saved == pc \in {"done", "raised"} /\ all_data # <<>>

\* the lines after the header
DataLines == IF output.lines = <<>> THEN <<>> ELSE Tail(output.lines)

Rows == {all_data[j] : j \in 1..Len(all_data)}

\* the k-th data line starts with the cells k, state, date
LineHas(k, state, date) ==
    StartsWith(DataLines[k], Join(<<IntStr(k), state, date>>, <<",">>) \o <<",">>)

\* the cells of a line
Cells(line) == Split(SubSeq(line, 1, Len(line) - 1), <<",">>)

\* the form MM/DD/YYYY
IsMDY(d) ==
    /\ Len(d) = 10
    /\ d[3] = "/"
    /\ d[6] = "/"
    /\ \A p \in {1, 2, 4, 5, 7, 8, 9, 10} : IsDigit(d[p])

\* the last row of all_data with the state and date of r
LastWithKey(r) ==
    all_data[CHOOSE j \in 1..Len(all_data) :
                /\ all_data[j].State = r.State
                /\ all_data[j].Date = r.Date
                /\ \A l \in (j + 1)..Len(all_data) :
                        all_data[l].State # r.State \/ all_data[l].Date # r.Date]

\* C2: the table has exactly one row per (State, Date) pair that any file yielded,
\* and a pair yielded by several files carries the values of the file processed last.
C2_OneRowPerKey ==
    (Saved /\ pc = "done") =>
        /\ Len(DataLines) = Cardinality({<<r.State, r.Date>> : r \in Rows})
        /\ \A r \in Rows :
            \E k \in 1..Len(DataLines) :
                DataLines[k] = RowLine(k, LastWithKey(r), selected_variables,
                                       institution_categories)

\* (state, year, month, day) of a data line whose date is MM/DD/YYYY
ChronoKey(line) ==
    LET c == Cells(line)
    IN  <<c[2], DigitsVal(SubSeq(c[3], 7, 10)), DigitsVal(SubSeq(c[3], 1, 2)),
          DigitsVal(SubSeq(c[3], 4, 5))>>

ChronoLess(a, b) ==
    \/ StrLess(a[1], b[1])
    \/ a[1] = b[1] /\ a[2] < b[2]
    \/ a[1] = b[1] /\ a[2] = b[2] /\ a[3] < b[3]
    \/ a[1] = b[1] /\ a[2] = b[2] /\ a[3] = b[3] /\ a[4] < b[4]

\* C3: when every Date is a normalized MM/DD/YYYY value the rows are written in
\* ascending order of (State, year, month, day), every collected row is written,
\* and the Obs cell of the k-th row is k.
C3_ChronologicalOrder ==
    (Saved /\ \A r \in Rows : IsMDY(r.Date)) =>
        /\ pc = "done"
        /\ Len(DataLines) = Len(all_data)
        /\ \A k \in 1..Len(DataLines) : Cells(DataLines[k])[1] = IntStr(k)
        /\ \A k \in 1..(Len(DataLines) - 1) :
            ~ChronoLess(ChronoKey(DataLines[k + 1]), ChronoKey(DataLines[k]))
        /\ \A r \in Rows :
            Cardinality({k \in 1..Len(DataLines) :
                            /\ Cells(DataLines[k])[2] = r.State
                            /\ Cells(DataLines[k])[3] = r.Date})
            = Cardinality({j \in 1..Len(all_data) :
                            /\ all_data[j].State = r.State
                            /\ all_data[j].Date = r.Date})

\* California's 12/31/2018 row is written before its 03/31/2019 row, although
\* "03/31/2019" is the smaller string
C3_Witness ==
    /\ Saved
    /\ pc = "done"
    /\ \A r \in Rows : IsMDY(r.Date)
    /\ \E k \in 1..(Len(DataLines) - 1) :
        /\ LineHas(k, California, <<"1", "2", "/", "3", "1", "/", "2", "0", "1", "8">>)
        /\ LineHas(k + 1, California, <<"0", "3", "/", "3", "1", "/", "2", "0", "1", "9">>)

\* C4: with a period that could not be parsed combine_data still completes and
\* writes every row; an unparsed row comes after the parsed rows of its
\* jurisdiction, and the unparsed rows of one jurisdiction are in the order of
\* their raw date strings.
C4_UnparsedSortsLast ==
    (Saved /\ \E r \in Rows : ~IsMDY(r.Date)) =>
        /\ pc = "done"
        /\ Len(DataLines) = Len(all_data)
        /\ \A k, l \in 1..Len(DataLines) : \A r, q \in Rows :
            (k < l /\ LineHas(k, r.State, r.Date) /\ LineHas(l, q.State, q.Date)
             /\ r.State = q.State) =>
                /\ ~(~IsMDY(r.Date) /\ IsMDY(q.Date))
                /\ (~IsMDY(r.Date) /\ ~IsMDY(q.Date)) => ~StrLess(q.Date, r.Date)

\* the cell the claim expects for an observation: empty when it is missing
ExpectedCell(r, var, category) ==
    IF <<var, category>> \notin DOMAIN r.obs THEN <<>>
    ELSE IF r.obs[<<var, category>>] = None THEN <<>>
    ELSE ValueStr(r.obs[<<var, category>>])

ExpectedLine(k, r) ==
    LET cs == Combos(selected_variables, institution_categories)
    IN  Join(<<IntStr(k), r.State, r.Date>>
             \o [j \in 1..Len(cs) |-> ExpectedCell(r, cs[j][1], cs[j][2])], <<",">>) \o <<NL>>

\* C5: every data row has exactly one cell per requested (metric, category)
\* combination, in request order, and a missing observation (null, or absent from
\* the parsed row) is written as the empty string.
C5_MissingIsEmpty ==
    (Saved /\ pc = "done") =>
        \A k \in 1..Len(DataLines) : \E r \in Rows : DataLines[k] = ExpectedLine(k, r)

\* C6: the Date cell of every row of the table has the form MM/DD/YYYY, whatever
\* the text on line 4 of the export files.
C6_DateAlwaysMDY ==
    (Saved /\ pc = "done") =>
        \A k \in 1..Len(DataLines) :
            \E r \in Rows : LineHas(k, r.State, r.Date) /\ IsMDY(r.Date)

\* d is what the claim, as amended, expects for the period text of file f
DateOf(d, f) ==
    LET text == DateText(f.lines)
        t == strptime(text)
    IN  IF t.ok
        THEN /\ IsMDY(d)
             /\ DigitsVal(SubSeq(d, 1, 2)) = t.m
             /\ DigitsVal(SubSeq(d, 4, 5)) = t.d
             /\ DigitsVal(SubSeq(d, 7, 10)) = t.y
        ELSE d = text

\* C6 as amended: the Date written for a row is the MM/DD/YYYY rendering of the
\* period text of its export file when that text is a valid "Month DD, YYYY" date,
\* and the trimmed text itself, unchanged, otherwise.
C6_DateMDYOrPassedThrough ==
    (Saved /\ pc = "done") =>
        \A k \in 1..Len(DataLines) :
            \E r \in Rows : \E i \in 1..Len(files) :
                /\ LineHas(k, r.State, r.Date)
                /\ WellFormed(files[i])
                /\ \E s \in 1..Len(States(files[i].lines)) :
                        States(files[i].lines)[s] = r.State
                /\ DateOf(r.Date, files[i])

\* a table with a converted date and a table row whose date was passed through
C6_Witness ==
    /\ Saved
    /\ pc = "done"
    /\ \E k \in 1..Len(DataLines) : LineHas(k, California, <<"Q", "3", " ", "2", "0", "1", "9">>)
    /\ \E k \in 1..Len(DataLines) : LineHas(k, Alabama, <<"0", "3", "/", "3", "1", "/", "2", "0", "1", "9">>)

\* the rows combine_data collects from the files fs, in their order
RECURSIVE Collected(_)
Collected(fs) ==
    IF fs = <<>> THEN <<>>
    ELSE LET r == process_file(Head(fs), selected_variables, institution_categories)
         IN  (IF r.none THEN <<>> ELSE r.rows) \o Collected(Tail(fs))

\* C7: a file that cannot be read, or has fewer lines than the indices 3, 4, 6, 9
\* require, makes process_file return no observations; combine_data goes on with
\* the remaining files, and what it writes is what it writes for the batch without
\* the malformed files.
C7_MalformedFileIsolated ==
    /\ (Processed /\ ~WellFormed(cur)) => (results.none /\ results.rows = <<>>)
    /\ (pc \in {"done", "raised"}) =>
        LET rest == Collected(SelectSeq(files, WellFormed))
        IN  /\ all_data = rest
            /\ idx = Len(files)
            /\ output = IF rest = <<>> THEN [exists |-> FALSE, lines |-> <<>>]
                        ELSE [exists |-> TRUE,
                              lines |-> Written(rest, selected_variables,
                                                institution_categories)]

\* a batch of the truncated file and a valid one: the table holds the rows of the
\* valid file alone
C7_Witness ==
    /\ pc = "done"
    /\ Len(files) = 2
    /\ files[1] = File7
    /\ files[2] = File2
    /\ Len(DataLines) = 1
    /\ LineHas(1, Alabama, <<"0", "6", "/", "3", "0", "/", "2", "0", "1", "9">>)

(***************************************************************************)
(* Properties of a session.                                                *)
(***************************************************************************)
\* the export-named files of the directory
Matching(l) == SelectSeq(l, LAMBDA f : state_date_pattern(f.name))

\* combine_data leaves its body in this step
Returns == pc \in {"idle", "loop"} /\ pc' \in {"done", "raised"}

\* C11: when no file of the directory matches the identity pattern, or the matching
\* files yield no row at all, combine_data returns normally and the output table is
\* neither created nor truncated nor modified: the table and the directory are
\* after the call what they were before it.
C11_NoDataWritesNothing ==
    [][(Returns /\ Collected(Matching(dir)) = <<>>) =>
            (pc' = "done" /\ output' = output /\ dir' = dir /\ latest' = latest)]_vars

\* a second run finds matching files but no row, and the table of the first run is
\* still there with its rows
C11_Witness ==
    /\ pc = "done"
    /\ run = 2
    /\ files # <<>>
    /\ all_data = <<>>
    /\ output.exists
    /\ Len(output.lines) >= 2
    /\ HasName(dir, output_file)
    /\ FileNamed(dir, output_file).lines = output.lines

\* a name of the form <2 to 6 upper-case letters><6 digits>.csv
ExportNamed(name) ==
    \E k \in 2..6 :
        /\ Len(name) = k + 10
        /\ \A i \in 1..Len(name) :
            IF i <= k THEN IsUpper(name[i])
            ELSE IF i <= k + 6 THEN IsDigit(name[i])
            ELSE name[i] = <<".", "c", "s", "v">>[i - k - 6]

\* a name that ends with _YYYYMMDD_HHMMSS.csv
TimestampSuffixed(name) ==
    LET n == Len(name)
    IN  /\ n > 20
        /\ SubSeq(name, n - 3, n) = <<".", "c", "s", "v">>
        /\ name[n - 19] = "_"
        /\ name[n - 10] = "_"
        /\ \A i \in ((n - 18)..(n - 11)) \cup ((n - 9)..(n - 4)) : IsDigit(name[i])

\* the export-named files of the directory, by the form of their names
Exports(l) == SelectSeq(l, LAMBDA f : ExportNamed(f.name))

Catalogued == variables # NotCalled

HasMarker(line) == Contains(line, <<"A", "G", "G", "R", "E", "G", "A", "T", "E", " ", "C", "O", "N", "D", "I", "T", "I", "O", "N">>)

\* the positions of the body of the sample: after the first line with the marker
\* and before the first all-upper-case line that follows it (a line with the marker
\* is not taken for one)
BodyLines(lines) ==
    {k \in 1..Len(lines) :
        /\ \E m \in 1..(k - 1) : HasMarker(lines[m])
        /\ \A t \in 1..k :
            (isupper(Strip(lines[t])) /\ ~HasMarker(lines[t])) =>
                ~\E m \in 1..(t - 1) : HasMarker(lines[m])}

\* the trimmed first quoted field of a line: the text between its first and second
\* double quote; nothing for a line without a double quote
NameOf(line) == IF Len(Split(line, <<Q>>)) < 2 THEN <<>> ELSE Strip(Split(line, <<Q>>)[2])

\* the positions of the body that give a name for the first time
FirstNamed(lines) ==
    {k \in BodyLines(lines) :
        /\ ~HasMarker(lines[k])
        /\ NameOf(lines[k]) # <<>>
        /\ \A j \in BodyLines(lines) :
            (j < k /\ ~HasMarker(lines[j])) => NameOf(lines[j]) # NameOf(lines[k])}

\* C13: get_available_variables returns exactly the metric names (first quoted
\* field, trimmed) of the non-empty, non-all-uppercase lines strictly after the line
\* containing "AGGREGATE CONDITION" and before the first all-uppercase line that
\* follows, each name once, in order of first appearance; lines before the marker
\* or after the terminating header never contribute.
C13_ExactNames ==
    (Catalogued /\ dir # <<>> /\ dir[1].readable) =>
        LET lines == dir[1].lines
            at == FirstNamed(lines)
        IN  /\ Len(variables) = Cardinality(at)
            /\ \A k \in at : \E i \in 1..Len(variables) : variables[i] = NameOf(lines[k])
            /\ \A i, j \in 1..Len(variables) :
                i < j => \E k, l \in at :
                    k < l /\ variables[i] = NameOf(lines[k]) /\ variables[j] = NameOf(lines[l])

\* the statement restricted to the samples whose body lines that are not blank all
\* hold a double quote
C13_ExactNamesOfQuotedLines ==
    (dir # <<>> /\ \A k \in BodyLines(dir[1].lines) :
        Strip(dir[1].lines[k]) = <<>> \/ Len(Split(dir[1].lines[k], <<Q>>)) >= 2) =>
            C13_ExactNames


\* the path log_transform_fdic_data wrote, and the tables before and after
LogOutput == CHOOSE p \in DOMAIN disk : p # input_file

InTable == read_csv(disk[input_file])

OutTable == read_csv(disk[LogOutput])

LogWritten == lpc = "done" /\ \E p \in DOMAIN disk : p # input_file

\* the columns of the input that are transformed
ValueColumns == {c \in 1..Len(InTable.columns) : InTable.columns[c] \notin skip_columns}

\* the numbers of a column of the input (in units of 1 / Scale) and its positive ones
Present(col) == {k \in 1..Len(col) : col[k] \notin na_values}

Positives(col) == {DecimalVal(col[k]) : k \in {j \in Present(col) : DecimalVal(col[j]) > 0}}

\* C14: every value of a numeric column keeps its sign: a negative value becomes
\* negative, a positive one positive, and a zero becomes zero, or positive when the
\* column has a strictly positive value, and never negative.
C14_SignPreserved ==
    LogWritten =>
        \A c \in ValueColumns :
            LET col == Column(InTable, c)
                out == Column(OutTable, c)
            IN  \A k \in Present(col) :
                    LET x == DecimalVal(col[k])
                    IN  /\ out[k] \notin na_values
                        /\ x < 0 => DecimalVal(out[k]) < 0
                        /\ x > 0 => DecimalVal(out[k]) > 0
                        /\ x = 0 => DecimalVal(out[k]) >= 0
                        /\ (x = 0 /\ Positives(col) # {}) => DecimalVal(out[k]) > 0
                        /\ (x = 0 /\ Positives(col) = {}) => DecimalVal(out[k]) = 0

\* C14 witness: a table was transformed that has, in one column, a negative value, a
\* zero and a positive value, and in a second table column a zero without a positive one
C14_Witness ==
    /\ LogWritten
    /\ \E c \in ValueColumns :
            LET col == Column(InTable, c)
            IN  /\ \E k \in Present(col) : DecimalVal(col[k]) < 0
                /\ \E k \in Present(col) : DecimalVal(col[k]) = 0
                /\ Positives(col) # {}
    /\ \E c \in ValueColumns :
            LET col == Column(InTable, c)
            IN  /\ \E k \in Present(col) : DecimalVal(col[k]) = 0
                /\ Positives(col) = {}

\* the least of a non-empty set of numbers
Least(S) == CHOOSE m \in S : \A x \in S : m <= x

\* the value written for the number x of a column whose zeros stand for the number zero
Logged(x, zero) ==
    LET y == IF x = 0 THEN zero ELSE x
        l == log1p(Num(IF y < 0 THEN 0 - y ELSE y)).v
    IN  FloatStr(Num(IF y < 0 THEN 0 - l ELSE l))

\* C15: in each numeric column every zero is replaced by one hundredth of the least
\* strictly positive value of that same column when there is one and stays zero
\* otherwise, and a value that is not zero is not replaced.
C15_ZeroReplacement ==
    LogWritten =>
        \A c \in ValueColumns :
            LET col == Column(InTable, c)
                out == Column(OutTable, c)
                zero == IF Positives(col) = {} THEN 0 ELSE Least(Positives(col)) \div 100
            IN  \A k \in 1..Len(col) :
                    IF k \in Present(col)
                    THEN out[k] = Logged(DecimalVal(col[k]), zero)
                    ELSE out[k] = <<>>

\* C15 witness: a table was transformed in which one column has a zero and two
\* different positive values while another column has a different least positive value
C15_Witness ==
    /\ LogWritten
    /\ \E c, d \in ValueColumns :
            LET col == Column(InTable, c)
                other == Column(InTable, d)
            IN  /\ \E k \in Present(col) : DecimalVal(col[k]) = 0
                /\ Cardinality(Positives(col)) = 2
                /\ Positives(other) # {}
                /\ Least(Positives(other)) # Least(Positives(col))

\* the path with _log before its last point
WithLog(path) ==
    LET i == CHOOSE j \in 1..Len(path) :
                path[j] = "." /\ \A m \in (j + 1)..Len(path) : path[m] # "."
    IN  [k \in 1..(Len(path) + 4) |->
            IF k < i THEN path[k]
            ELSE IF k < i + 4 THEN <<"_", "l", "o", "g">>[k - i + 1]
            ELSE path[k - 4]]

\* C16: a call that returns wrote the table to the input path with _log before the
\* extension, a path other than the input's, left the input file as it was, and wrote
\* the Obs, State and Date columns of the input unchanged.
C16_InputKept ==
    [][(lpc = "idle" /\ lpc' = "done") =>
            /\ DOMAIN disk' = {input_file, WithLog(input_file)}
            /\ WithLog(input_file) # input_file
            /\ disk'[input_file] = disk[input_file]
            /\ LET in == read_csv(disk[input_file])
                   out == read_csv(disk'[WithLog(input_file)])
               IN  /\ out.columns = in.columns
                   /\ Len(out.rows) = Len(in.rows)
                   /\ \A c \in 1..Len(in.columns) :
                        in.columns[c] \in skip_columns => Column(out, c) = Column(in, c)]_vars

\* C16 witness: the table of three rows at a path with two points was transformed, and
\* its file is still there next to the written one
C16_Witness ==
    /\ LogWritten
    /\ Len(disk[input_file]) = 4
    /\ Cardinality({i \in 1..Len(input_file) : input_file[i] = "."}) = 2
    /\ LogOutput = WithLog(input_file)


\* the fields 3, 5, 7, ... of the row of var split on the double quote
RowFields(lines, var) == EverySecondFrom(Split(VarLine(lines, var), <<Q>>), 3)

HasBlankField(lines, var) ==
    HasLine(lines, var) /\ \E k \in 1..Len(RowFields(lines, var)) : Strip(RowFields(lines, var)[k]) = <<>>

\* jurisdiction i, category c of a file of three jurisdictions has the parsed content
\* of field 3 + 2 * (3 * i + c) of the row of every requested metric
FieldOfBlock(f, rows) ==
    \A i \in 0..2, c \in 0..2, k \in 1..Len(selected_variables) :
        LET var == selected_variables[k]
        IN  (HasLine(f.lines, var) /\ Requested(CategoryOrder[c + 1])) =>
                LET fields == RowFields(f.lines, var)
                IN  (3 * i + c < Len(fields) /\ Strip(fields[3 * i + c + 1]) # <<>>) =>
                        Recorded(rows[i + 1], var, CategoryOrder[c + 1],
                                 Float(FieldValue(fields[3 * i + c + 1])))

\* C17: the value at flat index k comes from field 3 + 2k of the metric row, also when
\* an earlier value field of the row is blank, so that index 3*i+c is the value of
\* jurisdiction block i, category c.
C17_FieldIndex ==
    (Processed /\ WellFormed(cur) /\ ~results.none /\ ThreeAccepted(cur.lines)) =>
        FieldOfBlock(cur, results.rows)

\* C17 for the rows without a blank value field
C17_FieldIndexWithoutBlank ==
    (/\ Processed /\ WellFormed(cur) /\ ~results.none /\ ThreeAccepted(cur.lines)
     /\ \A k \in 1..Len(selected_variables) : ~HasBlankField(cur.lines, selected_variables[k])) =>
        FieldOfBlock(cur, results.rows)

\* the 0-based position among the accepted labels of the label of line 3 + 3k
PositionOf(lines, k) ==
    Cardinality({j \in 0..(k - 1) : Accepted(Label(lines[4 + 3 * j]))})

\* C18: when the label of line 3 or 6 is rejected and a later label is accepted, the
\* jurisdiction read from line 3 + 3k gets for category c the value at flat index
\* 3*k+c of every requested metric, the value of its own block.
C18_OwnBlock ==
    (Processed /\ WellFormed(cur) /\ ~results.none) =>
        \A k \in 1..2 :
            (/\ Accepted(Label(cur.lines[4 + 3 * k]))
             /\ \E j \in 0..(k - 1) : ~Accepted(Label(cur.lines[4 + 3 * j]))) =>
                \A c \in 0..2, n \in 1..Len(selected_variables) :
                    LET var == selected_variables[n]
                    IN  (HasLine(cur.lines, var) /\ Requested(CategoryOrder[c + 1])) =>
                            LET v == Values(VarLine(cur.lines, var))
                            IN  Recorded(results.rows[PositionOf(cur.lines, k) + 1], var,
                                         CategoryOrder[c + 1],
                                         IF 3 * k + c < Len(v) THEN Float(v[3 * k + c + 1])
                                         ELSE None)


\* the orders of n files
Orders(n) == {p \in [1..n -> 1..n] : \A a, b \in 1..n : a # b => p[a] # p[b]}

\* the lines combine_data writes when glob lists the files in the order p
TableOf(p) ==
    LET other == Collected([k \in 1..Len(files) |-> files[p[k]]])
    IN  IF other = <<>> THEN <<>>
        ELSE Written(other, selected_variables, institution_categories)

\* C19: whatever the order in which the matching files are processed, the same
\* request over the same files writes the same table: the same rows in the same
\* order with the same Obs numbers.
C19_OrderIndependent ==
    (pc \in {"done", "raised"}) =>
        \A p \in Orders(Len(files)) : TableOf(p) = output.lines

\* C19 for the batches in which no two collected rows have the same State and Date
C19_OrderIndependentDistinctKeys ==
    (/\ pc \in {"done", "raised"}
     /\ \A a, b \in 1..Len(all_data) :
            a # b => (all_data[a].State # all_data[b].State \/ all_data[a].Date # all_data[b].Date)) =>
        \A p \in Orders(Len(files)) : TableOf(p) = output.lines


\* C20: the file get_available_variables scans, the first one glob lists, is an
\* export file and never the combined table or another CSV: when it is an export
\* before a run of combine_data it is one after the run, so that a catalog that is
\* not empty before the run is not empty after it.
C20_SampleIsExport ==
    [][(Returns /\ dir # <<>> /\ state_date_pattern(dir[1].name)) =>
            /\ state_date_pattern(dir'[1].name)
            /\ get_available_variables(dir) # <<>> => get_available_variables(dir') # <<>>]_vars

====
